---- MODULE Spec2Model ----
(***************************************************************************)
(* Model of the WWI warrants pipeline.                                     *)
(*                                                                         *)
(*   Spec      : the batched, checkpointed orchestrator of                 *)
(*               json_extraction_gemini_so_batched.py together with its    *)
(*               extraction client extract_from_batch, over a sequence of  *)
(*               runs that end by completion, by an uncaught exception or  *)
(*               by a crash of the process at any step.                    *)
(*   SpecOps   : Spec, with the output CSV possibly removed between runs.  *)
(*   SpecCloud : the HTTP extraction client of json_extraction_cloud.py.   *)
(*   SpecCombiner : json_combination.py, read loop, sort and write.        *)
(*   SpecSortKey  : source_file_sort_key of json_combination.py.           *)
(*   SpecSegmenter: segment_people_from_jsonl of segmentation.py.          *)
(***************************************************************************)
EXTENDS Integers, Sequences, FiniteSets, TLC

\* ------------------------------------------------------------------ bounds
MaxLines == 3          \* longest input file, in lines
BATCH_SIZE == 2        \* the configurable batch size (10 in the script)
MaxPeople == 2         \* most PersonRecords in one model response
MaxRuns == 2           \* runs of the script over the same files
MaxRecords == 3        \* most lines in the combiner's input directory
MaxSfLen == 4          \* longest Source-File handed to the sort key, in tokens
MaxSegLines == 4       \* most lines and page ends in the segmenter's input

\* ------------------------------------------------------- program constants
MaxAttempts == 6       \* for i in range(6)
LastAttempt == 5       \* if i == 5: raise e

\* ---------------------------------------------------------------- helpers
RECURSIVE Pow2(_)
Pow2(n) == IF n = 0 THEN 1 ELSE 2 * Pow2(n - 1)

Range(s) == {s[n] : n \in 1..Len(s)}

\* ------------------------------------------------------------- input file
NoSourceFile == "<absent>"
SourceFiles == {"vol1_page_3"}
Names == {"John Smith"}

\* The kinds of line of the input JSONL: blank, not JSON, or a JSON object
\* with a text and, possibly, metadata carrying a Source-File.
LineKinds == {"blank", "bad", "json"}

\* The Source-File of the line at an offset: the lines at even offsets carry
\* one, those at odd offsets carry none.
MetaAt(offset) ==
    IF offset % 2 = 0 THEN CHOOSE f \in SourceFiles : TRUE ELSE NoSourceFile

\* A file of lines of the given kinds; the text of the line at offset n is n,
\* so that distinct lines carry distinct texts.
MkInput(kinds) ==
    [n \in 1..Len(kinds) |->
        [kind |-> kinds[n], text |-> n - 1, meta |-> MetaAt(n - 1)]]

Inputs == UNION {{MkInput(s) : s \in [1..n -> LineKinds]} : n \in 0..MaxLines}

\* json.loads(line) of a parseable line: the object's text and metadata.
json_loads(line) == [text |-> line.text, meta |-> line.meta]

\* json.dumps(source_data): the serialised object.
json_dumps(d) == <<"text", d.text, "Source-File", d.meta>>

\* source_data.get('metadata', {}).get('Source-File', 'Unknown')
SourceFileOf(d) == IF d.meta = NoSourceFile THEN "Unknown" ELSE d.meta

\* -------------------------------------------------------- model responses
PersonRecords(n) == [text_block_index : -1..(n + 1), name : Names]

\* The validated ExtractionResponse.people lists a call over n blocks may return.
Responses(n) ==
    UNION {[1..k -> PersonRecords(n)] : k \in 0..MaxPeople}

\* The exceptions an attempt can end with.
ErrorKinds == {"APIError", "ValidationError", "JSONDecodeError"}

\* ------------------------------------------------------------------ files
NoCheckpoint == [exists |-> FALSE, valid |-> FALSE, value |-> 0]
EmptyCheckpoint == [exists |-> TRUE, valid |-> FALSE, value |-> 0]
CheckpointOf(n) == [exists |-> TRUE, valid |-> TRUE, value |-> n]

NoFile == [exists |-> FALSE, rows |-> <<>>]
FileOf(rows) == [exists |-> TRUE, rows |-> rows]

HeaderRow ==
    [kind |-> "header", text_block_index |-> 0, name |-> "name",
     source_file |-> "source_file", raw_json_input |-> <<>>]

VARIABLES
    \* the environment
    input,              \* the lines of input_file
    apiKey,             \* GEMINI_API_KEY is set
    \* durable state
    checkpoint_file,    \* checkpoint.txt
    output_file,        \* the output CSV on disk
    log_file,           \* processing_log.txt
    \* the running process
    pc,                 \* position of the script
    start_line,
    write_header,
    csvfile,            \* rows written to csvfile and not yet on disk
    i,                  \* index of the last line read, -1 before the first
    batch_buffer,
    final,              \* the script is in its final-batch part
    attempt,            \* i of extract_from_batch's retry loop
    slept,              \* seconds slept by the current call
    tries,              \* generate_content calls made by the current call
    result,             \* result.people of the last returned call
    fellBack,           \* the last call returned ExtractionResponse(people=[])
    processed_names_log,
    \* history
    runs,               \* runs started so far
    dispatched,         \* texts dispatched to the client in this run
    everCkpt,           \* texts of batches whose checkpoint write completed
    due,                \* the rows the response to the batch in flight is due
    discarded,          \* records of that response the reconcile loop dropped
    warnings,           \* invalid block index warnings printed for that response
    history,            \* batches flushed to the output as it stands: texts, rows due
    exhausted,          \* a call of this run raised after its last attempt
    crashedInFlight,    \* the previous run crashed between call return and checkpoint
    \* json_combination.py
    input_dir,          \* the lines of the *.jsonl files, in sorted(glob) order
    in_f,               \* lines read from them so far
    records,
    sf,                 \* the Source-File handed to source_file_sort_key
    sort_key,           \* the key it returned
    \* segmentation.py
    pages,              \* the pages of the input JSONL, each its text's lines
    page_idx,
    lines,
    current,
    segments,           \* the people list of segment_people_from_jsonl
    person_index

envVars == <<input, apiKey>>
diskVars == <<checkpoint_file, output_file, log_file>>
callVars == <<attempt, slept, tries>>
procVars == <<pc, start_line, write_header, csvfile, i, batch_buffer, final,
              result, fellBack, processed_names_log>>
procVarsButPc == <<start_line, write_header, csvfile, i, batch_buffer, final,
                   result, fellBack, processed_names_log>>
histVars == <<runs, dispatched, everCkpt, due, discarded, warnings, history, exhausted,
              crashedInFlight>>
toolVars == <<input_dir, in_f, records, sf, sort_key, pages, page_idx, lines, current,
              segments, person_index>>
vars == <<envVars, diskVars, callVars, procVars, histVars, toolVars>>

\* The combiner and the segmenter are not running.
ToolsIdle ==
    /\ input_dir = <<>>
    /\ in_f = 0
    /\ records = <<>>
    /\ sf = <<>>
    /\ sort_key = <<>>
    /\ pages = <<>>
    /\ page_idx = -1
    /\ lines = <<>>
    /\ current = <<>>
    /\ segments = <<>>
    /\ person_index = 0

Init ==
    /\ input \in Inputs
    /\ apiKey \in BOOLEAN
    /\ checkpoint_file = NoCheckpoint
    /\ output_file = NoFile
    /\ log_file = NoFile
    /\ pc = "idle"
    /\ start_line = 0
    /\ write_header = FALSE
    /\ csvfile = <<>>
    /\ i = -1
    /\ batch_buffer = <<>>
    /\ final = FALSE
    /\ attempt = 0
    /\ slept = 0
    /\ tries = 0
    /\ result = <<>>
    /\ fellBack = FALSE
    /\ processed_names_log = <<>>
    /\ runs = 0
    /\ dispatched = {}
    /\ everCkpt = {}
    /\ due = {}
    /\ discarded = 0
    /\ warnings = 0
    /\ history = {}
    /\ exhausted = FALSE
    /\ crashedInFlight = FALSE
    /\ ToolsIdle

\* ------------------------------------------------------- pure definitions
\* int(f.read().strip()) guarded by os.path.exists and except ValueError.
ReadCheckpoint(cf) == IF cf.exists /\ cf.valid THEN cf.value ELSE 0

\* Variant: the output is opened in mode 'w' whatever the checkpoint says.
WriteHeaderAlways(out, sl) == TRUE

\* Variant: only the presence of the output decides, not the start line.
WriteHeaderOnlyMissing(out, sl) == ~out.exists

\* Variant: only the start line decides, not the presence of the output.
WriteHeaderOnlyFresh(out, sl) == sl = 0

\* write_header = not os.path.exists(output_file) or start_line == 0
WriteHeaderFor(out, sl) == ~out.exists \/ sl = 0

\* Variant: no line is skipped on resume.
SkippedNone(n, sl) == FALSE

\* Variant: the skip stops one line early.
SkippedOneLess(n, sl) == n < sl - 1

\* if i < start_line: continue
Skipped(n, sl) == n < sl

\* Variant: only the upper end of the index is checked.
InRangeNoLower(idx, len) == idx < len

\* if 0 <= idx < len(batch_buffer)
InRange(idx, len) == 0 <= idx /\ idx < len

\* buffer[idx] of a Python list: a negative index counts from the end.
PyIndex(buffer, idx) ==
    IF idx < 0 THEN buffer[Len(buffer) + idx + 1] ELSE buffer[idx + 1]

\* Variant: the metadata of the line read last, as in the unbatched scripts.
RowOfLastLine(person, buffer) ==
    LET source_data == PyIndex(buffer, -1)
    IN  [kind |-> "row",
         text_block_index |-> person.text_block_index,
         name |-> person.name,
         source_file |-> SourceFileOf(source_data),
         raw_json_input |-> json_dumps(source_data)]

\* The CSV row of one person: the person's own fields, with source_file and
\* raw_json_input assigned from batch_buffer[idx].
RowOf(person, buffer) ==
    LET source_data == PyIndex(buffer, person.text_block_index)
    IN  [kind |-> "row",
         text_block_index |-> person.text_block_index,
         name |-> person.name,
         source_file |-> SourceFileOf(source_data),
         raw_json_input |-> json_dumps(source_data)]

\* for person in result.people: the rows written, in order.
RECURSIVE ReconcileRows(_, _)
ReconcileRows(people, buffer) ==
    IF people = <<>> THEN <<>>
    ELSE LET person == Head(people)
             rest == ReconcileRows(Tail(people), buffer)
         IN  IF InRange(person.text_block_index, Len(buffer))
             THEN <<RowOf(person, buffer)>> \o rest
             ELSE rest

\* processed_names_log of the same loop.
RECURSIVE ReconcileNames(_, _)
ReconcileNames(people, buffer) ==
    IF people = <<>> THEN <<>>
    ELSE LET person == Head(people)
             rest == ReconcileNames(Tail(people), buffer)
         IN  IF InRange(person.text_block_index, Len(buffer))
             THEN <<person.name>> \o rest
             ELSE rest

\* Lines 172-173: the loop over the full batch prints a warning for every
\* person whose index is out of range; the loop over the final batch (lines
\* 204-223) has no else branch.
ReconcileWarnings(people, buffer, isFinal) ==
    IF isFinal THEN 0
    ELSE Cardinality({k \in 1..Len(people) :
                        ~InRange(people[k].text_block_index, Len(buffer))})

\* Variant: a linear backoff.
WaitTimeLinear(n) == 2 * n

\* wait_time = 2 ** i
WaitTime(n) == Pow2(n)

\* Variant: the raise is tied to an attempt the loop never makes.
RaisesOnSixth(n) == n = MaxAttempts

\* if i == 5: raise e
RaisesOn(n) == n = LastAttempt

\* except json.JSONDecodeError around the full-batch call only.
CaughtByLineHandler(kind, isFinal) == ~isFinal /\ kind = "JSONDecodeError"

Texts(buffer) == {buffer[n].text : n \in 1..Len(buffer)}

Running == pc \notin {"idle", "done", "halted"}

\* The script is between the return of the extraction call for the buffered
\* batch and the completed rewrite of the checkpoint.
InFlight == pc \in {"reconcile", "flush", "log", "ckpt_open", "ckpt_write"}

\* The rows a response over a batch is due: one per person whose index names a
\* block of the batch, carrying that block's source file and JSON.
RowsDue(people, buffer) ==
    {[kind |-> "row",
      text_block_index |-> people[k].text_block_index,
      name |-> people[k].name,
      source_file |-> IF buffer[people[k].text_block_index + 1].meta = NoSourceFile
                      THEN "Unknown"
                      ELSE buffer[people[k].text_block_index + 1].meta,
      raw_json_input |-> json_dumps(buffer[people[k].text_block_index + 1])] :
        k \in {n \in 1..Len(people) :
                 people[n].text_block_index \in 0..(Len(buffer) - 1)}}

\* ------------------------------------------------------------ run control
\* The process is gone: its variables with it.
ProcessGone ==
    /\ write_header' = FALSE
    /\ csvfile' = <<>>
    /\ i' = -1
    /\ batch_buffer' = <<>>
    /\ final' = FALSE
    /\ result' = <<>>
    /\ fellBack' = FALSE
    /\ processed_names_log' = <<>>
    /\ due' = {}
    /\ discarded' = 0
    /\ warnings' = 0

\* Leaving the `with open(output_file...)` block closes csvfile, which writes
\* out what it still buffers.
CloseCsv == output_file' = FileOf(output_file.rows \o csvfile)

\* An exception leaves the script.
Halt ==
    /\ pc' = "halted"
    /\ CloseCsv
    /\ ProcessGone
    /\ crashedInFlight' = FALSE

\* Lines 84-95: read the checkpoint, choose the CSV mode.
Start ==
    /\ pc \in {"idle", "done", "halted"}
    /\ runs < MaxRuns
    /\ runs' = runs + 1
    /\ start_line' = ReadCheckpoint(checkpoint_file)
    /\ write_header' = WriteHeaderFor(output_file, ReadCheckpoint(checkpoint_file))
    /\ pc' = "open"
    /\ dispatched' = {}
    /\ exhausted' = FALSE
    /\ attempt' = 0 /\ slept' = 0 /\ tries' = 0
    /\ UNCHANGED <<toolVars, envVars, diskVars, csvfile, i, batch_buffer, final, result,
                   fellBack, processed_names_log, everCkpt, due, discarded, warnings,
                   history, crashedInFlight>>

\* Line 103: open(output_file, csv_mode): mode 'w' creates or truncates.
OpenOutput ==
    /\ pc = "open"
    /\ output_file' = IF write_header THEN FileOf(<<>>)
                      ELSE FileOf(output_file.rows)
    /\ history' = IF write_header THEN {} ELSE history
    /\ pc' = "header"
    /\ UNCHANGED <<toolVars, envVars, checkpoint_file, log_file, callVars, start_line,
                   write_header, csvfile, i, batch_buffer, final, result,
                   fellBack, processed_names_log, runs, dispatched, everCkpt,
                   due, discarded, warnings, exhausted, crashedInFlight>>

\* Variant: the header is written whatever write_header says.
WriteHeaderEveryRun ==
    /\ pc = "header"
    /\ csvfile' = csvfile \o <<HeaderRow>>
    /\ log_file' = IF write_header THEN NoFile ELSE log_file
    /\ batch_buffer' = <<>>
    /\ pc' = "read"
    /\ UNCHANGED <<toolVars, envVars, checkpoint_file, output_file, callVars,
                   start_line, write_header, i, final, result, fellBack,
                   processed_names_log, histVars>>

\* Lines 111-119: the header and the removal of the log of a fresh run.
WriteHeader ==
    /\ pc = "header"
    /\ IF write_header
       THEN /\ csvfile' = csvfile \o <<HeaderRow>>
            /\ log_file' = NoFile
       ELSE UNCHANGED <<csvfile, log_file>>
    /\ batch_buffer' = <<>>
    /\ pc' = "read"
    /\ UNCHANGED <<toolVars, envVars, checkpoint_file, output_file, callVars, start_line,
                   write_header, i, final, result, fellBack,
                   processed_names_log, histVars>>

\* ----------------------------------------------------------- reading lines
HasLine == pc = "read" /\ i + 1 < Len(input)
NextLine == input[i + 2]

readFrame == <<toolVars, envVars, diskVars, callVars, start_line, write_header, csvfile,
               final, result, fellBack, processed_names_log, histVars>>

\* Lines 123-124.
SkipLine ==
    /\ HasLine
    /\ Skipped(i + 1, start_line)
    /\ i' = i + 1
    /\ UNCHANGED <<pc, batch_buffer, readFrame>>

\* Line 126.
BlankLine ==
    /\ HasLine
    /\ ~Skipped(i + 1, start_line)
    /\ NextLine.kind = "blank"
    /\ i' = i + 1
    /\ UNCHANGED <<pc, batch_buffer, readFrame>>

\* Variant: the JSONDecodeError of the line is not caught and ends the run.
BadLineAborts ==
    /\ HasLine
    /\ ~Skipped(i + 1, start_line)
    /\ NextLine.kind = "bad"
    /\ Halt
    /\ UNCHANGED <<toolVars, envVars, checkpoint_file, log_file, callVars,
                   start_line, runs, dispatched, everCkpt, history, exhausted>>

\* Lines 128, 193-194: json.loads raises, the line is reported and left out.
BadLine ==
    /\ HasLine
    /\ ~Skipped(i + 1, start_line)
    /\ NextLine.kind = "bad"
    /\ i' = i + 1
    /\ UNCHANGED <<pc, batch_buffer, readFrame>>

\* Lines 128-139: buffer the record; a full buffer goes to the client.
BufferLine ==
    /\ HasLine
    /\ ~Skipped(i + 1, start_line)
    /\ NextLine.kind = "json"
    /\ i' = i + 1
    /\ batch_buffer' = Append(batch_buffer, json_loads(NextLine))
    /\ IF Len(batch_buffer') >= BATCH_SIZE
       THEN /\ pc' = "call"
            /\ attempt' = 0 /\ slept' = 0 /\ tries' = 0
       ELSE UNCHANGED <<pc, attempt, slept, tries>>
    /\ UNCHANGED <<toolVars, envVars, diskVars, start_line, write_header, csvfile, final,
                   result, fellBack, processed_names_log, histVars>>

\* Variant: the final batch is dispatched even when the buffer is empty.
FinalBatchEvenIfEmpty ==
    /\ pc = "read"
    /\ i + 1 = Len(input)
    /\ final' = TRUE
    /\ pc' = "call"
    /\ attempt' = 0 /\ slept' = 0 /\ tries' = 0
    /\ UNCHANGED <<toolVars, envVars, diskVars, start_line, write_header, csvfile, i,
                   batch_buffer, result, fellBack, processed_names_log,
                   histVars>>

\* Lines 197-200: the remainder of the buffer at the end of the input.
FinalBatch ==
    /\ pc = "read"
    /\ i + 1 = Len(input)
    /\ batch_buffer # <<>>
    /\ final' = TRUE
    /\ pc' = "call"
    /\ attempt' = 0 /\ slept' = 0 /\ tries' = 0
    /\ UNCHANGED <<toolVars, envVars, diskVars, start_line, write_header, csvfile, i,
                   batch_buffer, result, fellBack, processed_names_log,
                   histVars>>

\* Line 238: nothing left; leaving the with block closes the CSV.
Finish ==
    /\ pc = "read"
    /\ i + 1 = Len(input)
    /\ batch_buffer = <<>>
    /\ pc' = "done"
    /\ CloseCsv
    /\ ProcessGone
    /\ crashedInFlight' = FALSE
    /\ UNCHANGED <<toolVars, envVars, checkpoint_file, log_file, callVars, start_line,
                   runs, dispatched, everCkpt, history, exhausted>>

\* ------------------------------------------------------ extract_from_batch
\* Lines 40-41.
MissingKey ==
    /\ pc = "call"
    /\ ~apiKey
    /\ Halt
    /\ UNCHANGED <<toolVars, envVars, checkpoint_file, log_file, callVars, start_line,
                   runs, dispatched, everCkpt, history, exhausted>>

\* Lines 56-64: generate_content answers and the answer validates.
AttemptSucceeds ==
    /\ pc = "call"
    /\ apiKey
    /\ attempt < MaxAttempts
    /\ tries' = tries + 1
    /\ dispatched' = dispatched \cup Texts(batch_buffer)
    /\ pc' = "validated"
    /\ UNCHANGED <<toolVars, envVars, diskVars, attempt, slept, start_line, write_header,
                   csvfile, i, batch_buffer, final, result, fellBack,
                   processed_names_log, runs, everCkpt, due, discarded, warnings, history,
                   exhausted, crashedInFlight>>

\* Variant: a response without people is taken as an error and ends the run.
ReturnResultEmptyIsError ==
    /\ pc = "validated"
    /\ \E r \in Responses(Len(batch_buffer)) :
          IF r = <<>>
          THEN Halt
          ELSE /\ result' = r
               /\ due' = RowsDue(r, batch_buffer)
               /\ fellBack' = FALSE
               /\ pc' = "reconcile"
               /\ UNCHANGED <<output_file, write_header, csvfile, i, batch_buffer,
                              final, processed_names_log, discarded, warnings,
                              crashedInFlight>>
    /\ attempt' = 0 /\ slept' = 0 /\ tries' = 0
    /\ UNCHANGED <<toolVars, envVars, checkpoint_file, log_file, start_line, runs,
                   dispatched, everCkpt, history, exhausted>>

\* Lines 64, 139 and 200: the validated response is returned and bound to
\* result; the call's own variables are gone.
ReturnResult ==
    /\ pc = "validated"
    /\ \E r \in Responses(Len(batch_buffer)) :
          /\ result' = r
          /\ due' = RowsDue(r, batch_buffer)
    /\ fellBack' = FALSE
    /\ attempt' = 0 /\ slept' = 0 /\ tries' = 0
    /\ pc' = "reconcile"
    /\ UNCHANGED <<toolVars, envVars, diskVars, start_line, write_header, csvfile, i,
                   batch_buffer, final, processed_names_log, runs, dispatched,
                   everCkpt, discarded, warnings, history, exhausted, crashedInFlight>>

\* Lines 66-73: the attempt raises before the last one: sleep and go round;
\* a loop that runs out of attempts falls through to the empty response.
AttemptFailsRetry ==
    /\ pc = "call"
    /\ apiKey
    /\ attempt < MaxAttempts
    /\ ~RaisesOn(attempt)
    /\ tries' = tries + 1
    /\ slept' = slept + WaitTime(attempt)
    /\ attempt' = attempt + 1
    /\ dispatched' = dispatched \cup Texts(batch_buffer)
    /\ IF attempt + 1 < MaxAttempts
       THEN UNCHANGED <<pc, result, fellBack, due>>
       ELSE /\ result' = <<>>
            /\ fellBack' = TRUE
            /\ due' = {}
            /\ pc' = "reconcile"
    /\ UNCHANGED <<toolVars, envVars, diskVars, start_line, write_header, csvfile, i,
                   batch_buffer, final, processed_names_log, runs, everCkpt,
                   discarded, warnings, history, exhausted, crashedInFlight>>

\* Lines 66-69: the last attempt raises and the error leaves the call: the
\* full-batch call sits inside `try ... except json.JSONDecodeError`, the
\* final-batch call outside of it.
AttemptFailsRaise ==
    /\ pc = "call"
    /\ apiKey
    /\ attempt < MaxAttempts
    /\ RaisesOn(attempt)
    /\ tries' = tries + 1
    /\ dispatched' = dispatched \cup Texts(batch_buffer)
    /\ exhausted' = TRUE
    /\ \E kind \in ErrorKinds :
          IF CaughtByLineHandler(kind, final)
          THEN /\ pc' = "read"
               /\ UNCHANGED <<output_file, write_header, csvfile, i,
                              batch_buffer, final, result, fellBack,
                              processed_names_log, due, discarded, warnings,
                              crashedInFlight>>
          ELSE Halt
    /\ UNCHANGED <<toolVars, envVars, checkpoint_file, log_file, attempt, slept,
                   start_line, runs, everCkpt, history>>

\* ------------------------------------------------- reconcile and persist
\* Lines 142-173 and 202-223; result is not used after the loop.
Reconcile ==
    /\ pc = "reconcile"
    /\ csvfile' = csvfile \o ReconcileRows(result, batch_buffer)
    /\ processed_names_log' = ReconcileNames(result, batch_buffer)
    /\ discarded' = Len(result) - Len(ReconcileRows(result, batch_buffer))
    /\ warnings' = ReconcileWarnings(result, batch_buffer, final)
    /\ result' = <<>>
    /\ fellBack' = FALSE
    /\ pc' = "flush"
    /\ UNCHANGED <<toolVars, envVars, diskVars, callVars, start_line, write_header, i,
                   batch_buffer, final, runs, dispatched, everCkpt, due, history,
                   exhausted, crashedInFlight>>

\* Variant: the flush is left out and the rows stay in csvfile's buffer.
FlushLeftOut ==
    /\ pc = "flush"
    /\ discarded' = 0
    /\ warnings' = 0
    /\ pc' = "log"
    /\ UNCHANGED <<toolVars, envVars, diskVars, callVars, start_line, write_header,
                   csvfile, i, batch_buffer, final, result, fellBack,
                   processed_names_log, runs, dispatched, everCkpt, due, history,
                   exhausted, crashedInFlight>>

\* Lines 176 and 225: csvfile.flush().
Flush ==
    /\ pc = "flush"
    /\ output_file' = FileOf(output_file.rows \o csvfile)
    /\ csvfile' = <<>>
    /\ history' = history \cup {[texts |-> Texts(batch_buffer), rows |-> due]}
    /\ discarded' = 0
    /\ warnings' = 0
    /\ pc' = "log"
    /\ UNCHANGED <<toolVars, envVars, checkpoint_file, log_file, callVars, start_line,
                   write_header, i, batch_buffer, final, result, fellBack,
                   processed_names_log, runs, dispatched, everCkpt, due,
                   exhausted, crashedInFlight>>

\* Lines 179-183 and 228-232: the batch's entry is appended to the log.
AppendLog ==
    /\ pc = "log"
    /\ log_file' = FileOf(log_file.rows \o
            <<[line |-> i + 1, names |-> processed_names_log, final |-> final]>>)
    /\ processed_names_log' = <<>>
    /\ pc' = "ckpt_open"
    /\ UNCHANGED <<toolVars, envVars, checkpoint_file, output_file, callVars, start_line,
                   write_header, csvfile, i, batch_buffer, final, result,
                   fellBack, histVars>>

\* Lines 187 and 235: open(checkpoint_file, 'w') empties the file.
OpenCheckpoint ==
    /\ pc = "ckpt_open"
    /\ checkpoint_file' = EmptyCheckpoint
    /\ pc' = "ckpt_write"
    /\ UNCHANGED <<toolVars, envVars, output_file, log_file, callVars, start_line,
                   write_header, csvfile, i, batch_buffer, final, result,
                   fellBack, processed_names_log, histVars>>

\* Variant: the offset of the last line read is written, not the next one.
WriteCheckpointLastLine ==
    /\ pc = "ckpt_write"
    /\ checkpoint_file' = CheckpointOf(i)
    /\ everCkpt' = everCkpt \cup Texts(batch_buffer)
    /\ IF final
       THEN /\ pc' = "done"
            /\ CloseCsv
            /\ ProcessGone
            /\ crashedInFlight' = FALSE
       ELSE /\ pc' = "read"
            /\ batch_buffer' = <<>>
            /\ due' = {}
            /\ UNCHANGED <<output_file, write_header, csvfile, i, final, result,
                           fellBack, processed_names_log, crashedInFlight,
                           discarded, warnings>>
    /\ UNCHANGED <<toolVars, envVars, log_file, callVars, start_line, runs,
                   dispatched, history, exhausted>>

\* Lines 188-191 and 236-238: str(i + 1) reaches the file when it is closed;
\* the buffer is cleared, or the script ends after the final batch.
WriteCheckpoint ==
    /\ pc = "ckpt_write"
    /\ checkpoint_file' = CheckpointOf(i + 1)
    /\ everCkpt' = everCkpt \cup Texts(batch_buffer)
    /\ IF final
       THEN /\ pc' = "done"
            /\ CloseCsv
            /\ ProcessGone
            /\ crashedInFlight' = FALSE
       ELSE /\ pc' = "read"
            /\ batch_buffer' = <<>>
            /\ due' = {}
            /\ UNCHANGED <<output_file, write_header, csvfile, i, final, result,
                           fellBack, processed_names_log, crashedInFlight>>
    /\ UNCHANGED <<toolVars, envVars, log_file, callVars, start_line, runs, dispatched,
                   discarded, warnings, history, exhausted>>

\* ------------------------------------------------------------ environment
\* The io buffer of csvfile fills up and its oldest row goes to disk.
Spill ==
    /\ Running
    /\ pc # "open"
    /\ csvfile # <<>>
    /\ output_file' = FileOf(Append(output_file.rows, Head(csvfile)))
    /\ csvfile' = Tail(csvfile)
    /\ UNCHANGED <<toolVars, envVars, checkpoint_file, log_file, callVars, pc, start_line,
                   write_header, i, batch_buffer, final, result, fellBack,
                   processed_names_log, histVars>>

\* The process dies: what is on disk stays, everything else is lost.
Crash ==
    /\ Running
    /\ crashedInFlight' = InFlight
    /\ pc' = "idle"
    /\ ProcessGone
    /\ start_line' = 0
    /\ attempt' = 0 /\ slept' = 0 /\ tries' = 0
    /\ dispatched' = {}
    /\ exhausted' = FALSE
    /\ UNCHANGED <<toolVars, envVars, diskVars, runs, everCkpt, history>>

Next ==
    \/ Start \/ OpenOutput \/ WriteHeader
    \/ SkipLine \/ BlankLine \/ BadLine \/ BufferLine \/ FinalBatch \/ Finish
    \/ MissingKey \/ AttemptSucceeds \/ ReturnResult
    \/ AttemptFailsRetry \/ AttemptFailsRaise
    \/ Reconcile \/ Flush \/ AppendLog \/ OpenCheckpoint \/ WriteCheckpoint
    \/ Spill \/ Crash

Spec == Init /\ [][Next]_vars

\* ------------------------------------------- the runs and their operator
\* Line 94 tests os.path.exists(output_file) next to the start line: between
\* two runs the output CSV may have been removed or moved away while the
\* checkpoint and the log stayed.
RemoveOutput ==
    /\ pc \in {"idle", "done", "halted"}
    /\ runs < MaxRuns
    /\ output_file.exists
    /\ output_file' = NoFile
    /\ history' = {}
    /\ UNCHANGED <<toolVars, envVars, checkpoint_file, log_file, callVars,
                   procVarsButPc, pc, runs, dispatched, everCkpt, due,
                   discarded, warnings, exhausted, crashedInFlight>>

NextOps == Next \/ RemoveOutput

SpecOps == Init /\ [][NextOps]_vars

\* ==================== json_extraction_cloud.py: extract_structured_data
\* One call of the HTTP client.  It uses the variables of the retry loop
\* (attempt, slept, tries, result, fellBack, exhausted) and pc; the files and
\* the orchestrator's variables stay as they start.

\* The people lists a validated response of the single-text client can hold.
CloudResponses == UNION {[1..k -> [name : Names]] : k \in 0..MaxPeople}

cloudFrame == <<toolVars, input, apiKey, diskVars, start_line, write_header, csvfile, i,
                batch_buffer, final, processed_names_log, runs, dispatched,
                everCkpt, due, discarded, warnings, history, crashedInFlight>>

InitCloud ==
    /\ input = <<>>
    /\ apiKey \in BOOLEAN
    /\ checkpoint_file = NoCheckpoint
    /\ output_file = NoFile
    /\ log_file = NoFile
    /\ pc = "cloud_idle"
    /\ start_line = 0
    /\ write_header = FALSE
    /\ csvfile = <<>>
    /\ i = -1
    /\ batch_buffer = <<>>
    /\ final = FALSE
    /\ attempt = 0
    /\ slept = 0
    /\ tries = 0
    /\ result = <<>>
    /\ fellBack = FALSE
    /\ processed_names_log = <<>>
    /\ runs = 0
    /\ dispatched = {}
    /\ everCkpt = {}
    /\ due = {}
    /\ discarded = 0
    /\ warnings = 0
    /\ history = {}
    /\ exhausted = FALSE
    /\ crashedInFlight = FALSE
    /\ ToolsIdle

\* wait_time = 2 ** i
CloudWaitTime(n) == Pow2(n)

\* if i == 5: raise e
CloudRaisesOn(n) == n = LastAttempt

\* Lines 62-63.
CloudMissingKey ==
    /\ pc = "cloud_idle"
    /\ ~apiKey
    /\ pc' = "cloud_raised"
    /\ UNCHANGED <<cloudFrame, callVars, result, fellBack, exhausted>>

\* Lines 65-85: the payload is built and the loop entered.
CloudBegin ==
    /\ pc = "cloud_idle"
    /\ apiKey
    /\ pc' = "cloud_call"
    /\ attempt' = 0 /\ slept' = 0 /\ tries' = 0
    /\ UNCHANGED <<cloudFrame, result, fellBack, exhausted>>

\* Lines 87-97: the response carries a text that validates.
CloudAttemptValidates ==
    /\ pc = "cloud_call"
    /\ attempt < MaxAttempts
    /\ \E r \in CloudResponses : result' = r
    /\ fellBack' = FALSE
    /\ tries' = tries + 1
    /\ pc' = "cloud_returned"
    /\ UNCHANGED <<cloudFrame, attempt, slept, exhausted>>

\* Lines 95-96, 85, 106: the response carries no text: nothing is raised and
\* the loop goes round at once; after the last round the function returns an
\* ExtractionResponse without people.
CloudAttemptNoText ==
    /\ pc = "cloud_call"
    /\ attempt < MaxAttempts
    /\ tries' = tries + 1
    /\ attempt' = attempt + 1
    /\ IF attempt + 1 < MaxAttempts
       THEN UNCHANGED <<pc, result, fellBack>>
       ELSE /\ result' = <<>>
            /\ fellBack' = TRUE
            /\ pc' = "cloud_returned"
    /\ UNCHANGED <<cloudFrame, slept, exhausted>>

\* Lines 99-104: the attempt raises before the last one.
CloudAttemptFailsRetry ==
    /\ pc = "cloud_call"
    /\ attempt < MaxAttempts
    /\ ~CloudRaisesOn(attempt)
    /\ tries' = tries + 1
    /\ slept' = slept + CloudWaitTime(attempt)
    /\ attempt' = attempt + 1
    /\ IF attempt + 1 < MaxAttempts
       THEN UNCHANGED <<pc, result, fellBack>>
       ELSE /\ result' = <<>>
            /\ fellBack' = TRUE
            /\ pc' = "cloud_returned"
    /\ UNCHANGED <<cloudFrame, exhausted>>

\* Lines 99-102: the last attempt raises and the error leaves the call.
CloudAttemptFailsRaise ==
    /\ pc = "cloud_call"
    /\ attempt < MaxAttempts
    /\ CloudRaisesOn(attempt)
    /\ tries' = tries + 1
    /\ exhausted' = TRUE
    /\ pc' = "cloud_raised"
    /\ UNCHANGED <<cloudFrame, attempt, slept, result, fellBack>>

NextCloud ==
    \/ CloudMissingKey \/ CloudBegin
    \/ CloudAttemptValidates \/ CloudAttemptNoText
    \/ CloudAttemptFailsRetry \/ CloudAttemptFailsRaise

SpecCloud == InitCloud /\ [][NextCloud]_vars

\* ============================================ json_combination.py
\* The orchestrator is not running; pc, i and output_file are used by the
\* script that runs.
PipelineIdle ==
    /\ input = <<>>
    /\ apiKey = FALSE
    /\ checkpoint_file = NoCheckpoint
    /\ log_file = NoFile
    /\ start_line = 0
    /\ write_header = FALSE
    /\ csvfile = <<>>
    /\ batch_buffer = <<>>
    /\ final = FALSE
    /\ attempt = 0
    /\ slept = 0
    /\ tries = 0
    /\ result = <<>>
    /\ fellBack = FALSE
    /\ processed_names_log = <<>>
    /\ runs = 0
    /\ dispatched = {}
    /\ everCkpt = {}
    /\ due = {}
    /\ discarded = 0
    /\ warnings = 0
    /\ history = {}
    /\ exhausted = FALSE
    /\ crashedInFlight = FALSE

pipelineFrame == <<envVars, checkpoint_file, log_file, callVars, start_line,
                   write_header, csvfile, batch_buffer, final, result, fellBack,
                   processed_names_log, histVars>>

\* A Source-File is a sequence of tokens: single characters, and the words
\* "page_" and "vol1" taken whole.
SfAlphabet == {" ", "3", "4", "_", "page_", "vol1"}
Digits == {"3", "4"}
DigitValue(c) == IF c = "3" THEN 3 ELSE 4

\* The code point of a token's first character: the order of str comparison.
CodePoint(c) ==
    CASE c = " " -> 32
      [] c = "3" -> 51
      [] c = "4" -> 52
      [] c = "_" -> 95
      [] c = "page_" -> 112
      [] c = "vol1" -> 118

SfStrings == UNION {[1..n -> SfAlphabet] : n \in 0..MaxSfLen}

Vol1Page3 == <<"vol1", "_", "page_", "3">>
Vol1Page4 == <<"vol1", "_", "page_", "4">>

\* PAGE_RE = r"page_(\d+)" matches at position k.
PAGE_RE_match(s, k) == k + 1 <= Len(s) /\ s[k] = "page_" /\ s[k + 1] \in Digits

\* The last position of the greedy \d+ of a match at k.
RECURSIVE GroupEnd(_, _)
GroupEnd(s, k) ==
    IF k + 1 <= Len(s) /\ s[k + 1] \in Digits THEN GroupEnd(s, k + 1) ELSE k

\* PAGE_RE.search(sf): the position of the leftmost match, 0 without one.
PAGE_RE_search(s) ==
    IF \E k \in 1..Len(s) : PAGE_RE_match(s, k)
    THEN CHOOSE k \in 1..Len(s) :
            PAGE_RE_match(s, k) /\ \A j \in 1..(k - 1) : ~PAGE_RE_match(s, j)
    ELSE 0

\* int(m.group(1))
RECURSIVE IntOf(_)
IntOf(ds) ==
    IF ds = <<>> THEN 0
    ELSE 10 * IntOf(SubSeq(ds, 1, Len(ds) - 1)) + DigitValue(ds[Len(ds)])

\* PAGE_RE.sub("", sf) from position k on: every match is left out.
RECURSIVE PAGE_RE_sub(_, _)
PAGE_RE_sub(s, k) ==
    IF k > Len(s) THEN <<>>
    ELSE IF PAGE_RE_match(s, k) THEN PAGE_RE_sub(s, GroupEnd(s, k) + 1)
    ELSE <<s[k]>> \o PAGE_RE_sub(s, k + 1)

\* str.strip()
RECURSIVE lstrip(_)
lstrip(s) == IF s # <<>> /\ Head(s) = " " THEN lstrip(Tail(s)) ELSE s
RECURSIVE rstrip(_)
rstrip(s) ==
    IF s # <<>> /\ s[Len(s)] = " " THEN rstrip(SubSeq(s, 1, Len(s) - 1)) ELSE s
strip(s) == rstrip(lstrip(s))

\* Lines 26-35, on the Source-File.
KeyOfSourceFile(s) ==
    LET m == PAGE_RE_search(s)
        page == IF m # 0 THEN IntOf(SubSeq(s, m + 1, GroupEnd(s, m))) ELSE -1
        volume == strip(PAGE_RE_sub(s, 1))
    IN  <<volume, page>>

\* r.get("metadata", {}).get("Source-File", "")
NoMetadata == <<"<no metadata>">>
source_file_sort_key(rec) ==
    KeyOfSourceFile(IF rec.meta = NoMetadata THEN <<>> ELSE rec.meta)

\* str < str
RECURSIVE StrLess(_, _)
StrLess(a, b) ==
    IF b = <<>> THEN FALSE
    ELSE IF a = <<>> THEN TRUE
    ELSE IF Head(a) = Head(b) THEN StrLess(Tail(a), Tail(b))
    ELSE CodePoint(Head(a)) < CodePoint(Head(b))

\* tuple < tuple of two sort keys
KeyLess(a, b) == StrLess(a[1], b[1]) \/ (a[1] = b[1] /\ a[2] < b[2])

\* Variant: the record goes before the records with an equal key.
RECURSIVE InsertBeforeEqual(_, _)
InsertBeforeEqual(rec, sorted) ==
    IF sorted = <<>> THEN <<rec>>
    ELSE IF ~KeyLess(source_file_sort_key(Head(sorted)), source_file_sort_key(rec))
         THEN <<rec>> \o sorted
         ELSE <<Head(sorted)>> \o InsertBeforeEqual(rec, Tail(sorted))

\* list.sort is stable: a record goes behind the records whose key is not
\* greater than its own.
RECURSIVE InsertByKey(_, _)
InsertByKey(rec, sorted) ==
    IF sorted = <<>> THEN <<rec>>
    ELSE IF KeyLess(source_file_sort_key(rec), source_file_sort_key(Head(sorted)))
         THEN <<rec>> \o sorted
         ELSE <<Head(sorted)>> \o InsertByKey(rec, Tail(sorted))

\* records.sort(key=source_file_sort_key)
RECURSIVE SortRecords(_)
SortRecords(rs) ==
    IF rs = <<>> THEN <<>>
    ELSE InsertByKey(rs[Len(rs)], SortRecords(SubSeq(rs, 1, Len(rs) - 1)))

\* The lines of the directory: blank, not JSON, or an object whose metadata
\* carries a Source-File or none.
CombinerSourceFiles == {Vol1Page3, Vol1Page4, <<"vol1", "_">>, NoMetadata}
CombinerLineShapes ==
    {[kind |-> "blank", meta |-> NoMetadata], [kind |-> "bad", meta |-> NoMetadata]}
        \cup {[kind |-> "json", meta |-> m] : m \in CombinerSourceFiles}

\* The first `split` lines are those of a.jsonl, the rest those of b.jsonl;
\* the text of the n-th line is n - 1.
MkDir(shapes, split) ==
    [n \in 1..Len(shapes) |->
        [file |-> IF n <= split THEN "a.jsonl" ELSE "b.jsonl",
         kind |-> shapes[n].kind,
         text |-> n - 1,
         meta |-> shapes[n].meta]]

Directories ==
    UNION {{MkDir(sh, k) : sh \in [1..n -> CombinerLineShapes], k \in 0..n} :
             n \in 0..MaxRecords}

\* What an earlier run left at data/combined.jsonl.
StaleRecord == [text |-> -1, meta |-> NoMetadata, source_file |-> "old.jsonl"]

combFrame == <<pipelineFrame, i, sf, sort_key, pages, page_idx, lines, current,
               segments, person_index>>

InitCombiner ==
    /\ PipelineIdle
    /\ i = -1
    /\ pc = "comb_read"
    /\ output_file \in {NoFile, FileOf(<<StaleRecord>>)}
    /\ input_dir \in Directories
    /\ in_f = 0
    /\ records = <<>>
    /\ sf = <<>>
    /\ sort_key = <<>>
    /\ pages = <<>>
    /\ page_idx = -1
    /\ lines = <<>>
    /\ current = <<>>
    /\ segments = <<>>
    /\ person_index = 0

CombHasLine == pc = "comb_read" /\ in_f < Len(input_dir)
CombLine == input_dir[in_f + 1]

\* Lines 14-15.
CombSkipBlank ==
    /\ CombHasLine
    /\ CombLine.kind = "blank"
    /\ in_f' = in_f + 1
    /\ UNCHANGED <<combFrame, pc, output_file, input_dir, records>>

\* Lines 16-21.
CombReadRecord ==
    /\ CombHasLine
    /\ CombLine.kind = "json"
    /\ in_f' = in_f + 1
    /\ records' = Append(records,
            [text |-> CombLine.text, meta |-> CombLine.meta,
             source_file |-> CombLine.file])
    /\ UNCHANGED <<combFrame, pc, output_file, input_dir>>

\* Variant: the line that does not parse is left out and the reading goes on.
CombReadBadSkips ==
    /\ CombHasLine
    /\ CombLine.kind = "bad"
    /\ in_f' = in_f + 1
    /\ UNCHANGED <<combFrame, pc, output_file, input_dir, records>>

\* Line 16: json.loads raises and nothing catches it.
CombReadBad ==
    /\ CombHasLine
    /\ CombLine.kind = "bad"
    /\ pc' = "comb_raised"
    /\ UNCHANGED <<combFrame, output_file, input_dir, in_f, records>>

\* Line 37.
CombSort ==
    /\ pc = "comb_read"
    /\ in_f = Len(input_dir)
    /\ records' = SortRecords(records)
    /\ pc' = "comb_open"
    /\ UNCHANGED <<combFrame, output_file, input_dir, in_f>>

\* Line 40: open("w") creates or empties the destination.
CombOpen ==
    /\ pc = "comb_open"
    /\ output_file' = FileOf(<<>>)
    /\ pc' = "comb_write"
    /\ UNCHANGED <<combFrame, input_dir, in_f, records>>

\* Lines 41-42 and the end of the with block.
CombWrite ==
    /\ pc = "comb_write"
    /\ output_file' = FileOf(output_file.rows \o records)
    /\ pc' = "comb_done"
    /\ UNCHANGED <<combFrame, input_dir, in_f, records>>

NextCombiner ==
    \/ CombSkipBlank \/ CombReadRecord \/ CombReadBad
    \/ CombSort \/ CombOpen \/ CombWrite

SpecCombiner == InitCombiner /\ [][NextCombiner]_vars

\* One call of source_file_sort_key on a record with the Source-File sf.
keyFrame == <<pipelineFrame, i, output_file, input_dir, in_f, records, pages,
              page_idx, lines, current, segments, person_index>>

InitSortKey ==
    /\ PipelineIdle
    /\ i = -1
    /\ pc = "key_call"
    /\ output_file = NoFile
    /\ input_dir = <<>>
    /\ in_f = 0
    /\ records = <<>>
    /\ sf \in SfStrings
    /\ sort_key = <<>>
    /\ pages = <<>>
    /\ page_idx = -1
    /\ lines = <<>>
    /\ current = <<>>
    /\ segments = <<>>
    /\ person_index = 0

\* Lines 26-35.
SortKeyCall ==
    /\ pc = "key_call"
    /\ sort_key' = source_file_sort_key([meta |-> sf])
    /\ pc' = "key_returned"
    /\ UNCHANGED <<keyFrame, sf>>

NextSortKey == SortKeyCall

SpecSortKey == InitSortKey /\ [][NextSortKey]_vars

\* ================================================== segmentation.py
\* The lines a page's text.splitlines() can hold: an empty line, an ID line,
\* a name line, other text, and other text followed by a space.
SegLineTexts ==
    {"", "100-1", "John Smith, Ger", "Warrant issued", "Warrant issued "}

\* str.rstrip() and str.strip() of such a line.
line_rstrip(l) == IF l = "Warrant issued " THEN "Warrant issued" ELSE l
line_strip(l) == line_rstrip(l)

\* ID_LINE_RE = r"^\s*\d{1,4}-\d*"
ID_LINE_RE_match(l) == l = "100-1"

\* NAME_LINE_RE = r"^[A-Z][a-z]+(?:\s+[A-Z][a-z]+)*,"
NAME_LINE_RE_match(l) == l = "John Smith, Ger"

\* Lines 22-26: sorted(set(findall)) of ID_EXTRACT_RE over the lines.
extract_ids(ls) ==
    IF \E n \in 1..Len(ls) : ls[n] = "100-1" THEN <<"100-1">> ELSE <<>>

\* Lines 29-34: the text before the first comma of the name lines.
extract_names(ls) ==
    IF \E n \in 1..Len(ls) : NAME_LINE_RE_match(line_strip(ls[n]))
    THEN <<"John Smith">> ELSE <<>>

\* Variant: the name is looked for on the next line only.
looks_like_start_next_line(ls, idx) ==
    /\ ID_LINE_RE_match(ls[idx + 1])
    /\ idx + 1 < Len(ls)
    /\ NAME_LINE_RE_match(line_strip(ls[idx + 2]))

\* Variant: an ID line starts a person whatever follows it.
looks_like_id_line(ls, idx) == ID_LINE_RE_match(ls[idx + 1])

\* Lines 37-51, idx counted from 0: lines[idx + 1: idx + 3] are the next two.
looks_like_person_start(ls, idx) ==
    /\ ID_LINE_RE_match(ls[idx + 1])
    /\ \E la \in {idx + 1, idx + 2} :
          la < Len(ls) /\ NAME_LINE_RE_match(line_strip(ls[la + 1]))

\* [l.rstrip() for l in text.splitlines() if l.strip()]
RECURSIVE NonBlankStripped(_)
NonBlankStripped(text) ==
    IF text = <<>> THEN <<>>
    ELSE IF line_strip(Head(text)) = "" THEN NonBlankStripped(Tail(text))
    ELSE <<line_rstrip(Head(text))>> \o NonBlankStripped(Tail(text))

\* The input JSONL as one sequence of page lines and page ends.
PageEnd == "<page end>"
RECURSIVE SplitPages(_, _)
SplitPages(flat, page) ==
    IF flat = <<>> THEN (IF page = <<>> THEN <<>> ELSE <<page>>)
    ELSE IF Head(flat) = PageEnd THEN <<page>> \o SplitPages(Tail(flat), <<>>)
    ELSE SplitPages(Tail(flat), Append(page, Head(flat)))

SegInputs ==
    {SplitPages(f, <<>>) :
        f \in UNION {[1..n -> SegLineTexts \cup {PageEnd}] : n \in 0..MaxSegLines}}

\* The dict appended to people.
PersonBlock(ls) ==
    [person_index |-> person_index,
     page_index |-> page_idx,
     raw_text |-> ls,
     id_candidates |-> extract_ids(ls),
     name_candidates |-> extract_names(ls)]

segFrame == <<pipelineFrame, output_file, input_dir, in_f, records, sf, sort_key>>

InitSegmenter ==
    /\ PipelineIdle
    /\ output_file = NoFile
    /\ input_dir = <<>>
    /\ in_f = 0
    /\ records = <<>>
    /\ sf = <<>>
    /\ sort_key = <<>>
    /\ pc = "seg_page"
    /\ pages \in SegInputs
    /\ page_idx = -1
    /\ lines = <<>>
    /\ current = <<>>
    /\ i = 0
    /\ segments = <<>>
    /\ person_index = 0

\* Variant: current is not emptied at the start of a page.
SegReadPageKeepsCurrent ==
    /\ pc = "seg_page"
    /\ page_idx + 1 < Len(pages)
    /\ page_idx' = page_idx + 1
    /\ lines' = NonBlankStripped(pages[page_idx + 2])
    /\ i' = 0
    /\ pc' = "seg_loop"
    /\ UNCHANGED <<segFrame, pages, current, segments, person_index>>

\* Lines 63-69: the next page.
SegReadPage ==
    /\ pc = "seg_page"
    /\ page_idx + 1 < Len(pages)
    /\ page_idx' = page_idx + 1
    /\ lines' = NonBlankStripped(pages[page_idx + 2])
    /\ current' = <<>>
    /\ i' = 0
    /\ pc' = "seg_loop"
    /\ UNCHANGED <<segFrame, pages, segments, person_index>>

\* Lines 71-87: one round of the while loop.
SegLine ==
    /\ pc = "seg_loop"
    /\ i < Len(lines)
    /\ IF looks_like_person_start(lines, i) /\ current # <<>>
       THEN /\ segments' = Append(segments, PersonBlock(current))
            /\ person_index' = person_index + 1
            /\ current' = <<lines[i + 1]>>
       ELSE /\ current' = Append(current, lines[i + 1])
            /\ UNCHANGED <<segments, person_index>>
    /\ i' = i + 1
    /\ UNCHANGED <<segFrame, pc, pages, page_idx, lines>>

\* Variant: the block still open at the end of the page is not finalized.
SegEndPageDropsLast ==
    /\ pc = "seg_loop"
    /\ i = Len(lines)
    /\ pc' = "seg_page"
    /\ UNCHANGED <<segFrame, pages, page_idx, lines, current, i, segments,
                   person_index>>

\* Lines 89-98: the last person of the page.
SegEndPage ==
    /\ pc = "seg_loop"
    /\ i = Len(lines)
    /\ IF current # <<>>
       THEN /\ segments' = Append(segments, PersonBlock(current))
            /\ person_index' = person_index + 1
       ELSE UNCHANGED <<segments, person_index>>
    /\ pc' = "seg_page"
    /\ UNCHANGED <<segFrame, pages, page_idx, lines, current, i>>

\* Line 100.
SegReturn ==
    /\ pc = "seg_page"
    /\ page_idx + 1 = Len(pages)
    /\ pc' = "seg_done"
    /\ UNCHANGED <<segFrame, pages, page_idx, lines, current, i, segments,
                   person_index>>

NextSegmenter == SegReadPage \/ SegLine \/ SegEndPage \/ SegReturn

SpecSegmenter == InitSegmenter /\ [][NextSegmenter]_vars

\* ================================================================= claims
DataRows(rows) == {r \in Range(rows) : r.kind = "row"}
LastOf(s) == s[Len(s)]
ParseableBelow(n) ==
    {input[k].text : k \in {m \in 1..Len(input) :
                              input[m].kind = "json" /\ input[m].text < n}}

\* C1: the checkpoint file is touched only when csvfile holds no unflushed
\* row, the rows due to the batch are in the output file and the last log
\* entry is the batch's; and a valid checkpoint never covers a buffered
\* record whose rows are not flushed yet.
C1_NotCoveredBeforeFlush ==
    (checkpoint_file.valid /\ pc \in {"read", "call", "reconcile", "flush"})
        => \A t \in Texts(batch_buffer) : t >= checkpoint_file.value
C1_CheckpointStep ==
    checkpoint_file' # checkpoint_file
        => /\ csvfile = <<>>
           /\ due \subseteq Range(output_file.rows)
           /\ log_file.exists
           /\ Len(log_file.rows) > 0
           /\ LastOf(log_file.rows).line = i + 1
           /\ LastOf(log_file.rows).final = final
C1_CheckpointAfterFlushAndLog ==
    [](C1_NotCoveredBeforeFlush) /\ [][C1_CheckpointStep]_vars
C1_Witness ==
    /\ pc = "read"
    /\ checkpoint_file.valid
    /\ checkpoint_file.value = i + 1
    /\ DataRows(output_file.rows) # {}
    /\ log_file.exists

\* C2: in a run that read checkpoint K, no record of an input line with
\* offset below K is buffered or dispatched.
C2_NoDispatchBelowCheckpoint ==
    Running => \A t \in dispatched \cup Texts(batch_buffer) : t >= start_line
C2_Witness ==
    /\ start_line > 0
    /\ dispatched # {}

\* C3: every parseable input record below the persisted checkpoint belongs
\* to a dispatched batch whose reconciled rows are all in the output file.
C3_NoLossNoGap ==
    \A t \in ParseableBelow(ReadCheckpoint(checkpoint_file)) :
        \E h \in history :
            /\ t \in h.texts
            /\ h.rows \subseteq Range(output_file.rows)
C3_Witness ==
    /\ runs = 2
    /\ pc = "done"
    /\ start_line > 0
    /\ checkpoint_file.valid
    /\ checkpoint_file.value > start_line
    /\ Cardinality(ParseableBelow(checkpoint_file.value)) > BATCH_SIZE

\* C4 (as claimed): in a run resumed after a crash between the return of the
\* extraction call and the completed checkpoint update, no record of an
\* already checkpointed batch is dispatched again.
C4_OnlyInFlightBatchAgain ==
    (crashedInFlight /\ pc = "call" /\ tries > 0)
        => Texts(batch_buffer) \cap everCkpt = {}

\* C5: at most 6 attempts per call, a return at the first success, a sleep of
\* 2^i after failed attempt i < 5; success on attempt 5 after five failures
\* has slept 1 + 2 + 4 + 8 + 16 = 31 seconds.
SleptAfterFailures == <<0, 1, 3, 7, 15, 31>>
C5_RetrySchedule ==
    /\ tries <= 6
    /\ pc = "call" => /\ attempt <= 5
                      /\ tries = attempt
                      /\ slept = SleptAfterFailures[attempt + 1]
    /\ pc = "validated" => /\ attempt <= 5
                           /\ tries = attempt + 1
                           /\ slept = SleptAfterFailures[attempt + 1]
    /\ (pc = "halted" /\ exhausted) => (tries = 6 /\ slept = 31)
C5_Witness ==
    /\ pc = "validated"
    /\ attempt = 5
    /\ tries = 6
    /\ slept = 1 + 2 + 4 + 8 + 16

\* C6: extract_from_batch never returns its empty fallback response: six
\* failed attempts end in a raise.
C6_NoFallbackReturn ==
    /\ ~fellBack
    /\ (tries = 6 /\ pc # "validated") => exhausted
C6_Witness ==
    /\ pc = "halted"
    /\ exhausted
    /\ tries = 6

\* C7 (as claimed): in the HTTP client every attempt without a validated
\* response has been followed by its backoff of 2^i seconds, six of them end
\* in a raise, and a return without people is a validated response.
C7_CloudFailuresRetriedOrRaised ==
    /\ pc = "cloud_call" => slept = SleptAfterFailures[attempt + 1]
    /\ pc = "cloud_returned" => ~fellBack
    /\ (tries = 6 /\ pc # "cloud_returned") => (pc = "cloud_raised" /\ exhausted)

\* C8 (as claimed): once an extraction call has used up its retries the run
\* has halted.
C8_ExhaustionHaltsRun == exhausted => pc = "halted"

\* C9: the reconcile loop writes one row per person whose index lies in
\* [0, batch length), none for the others, raises nothing and goes on to
\* flush, log and checkpoint the batch.
InRangePeople(people, len) ==
    {k \in 1..Len(people) :
        people[k].text_block_index >= 0 /\ people[k].text_block_index < len}
C9_OutOfRangeDropped ==
    [][(pc = "reconcile" /\ pc' # "idle" /\ pc' # "reconcile")
         => /\ pc' = "flush"
            /\ Len(csvfile') =
                 Len(csvfile) + Cardinality(InRangePeople(result, Len(batch_buffer)))
            /\ \A n \in (Len(csvfile) + 1)..Len(csvfile') :
                 /\ csvfile'[n].text_block_index >= 0
                 /\ csvfile'[n].text_block_index < Len(batch_buffer)
            /\ Len(processed_names_log') =
                 Cardinality(InRangePeople(result, Len(batch_buffer)))
            /\ discarded' =
                 Len(result) - Cardinality(InRangePeople(result, Len(batch_buffer)))]_vars
C9_Witness ==
    /\ pc = "flush"
    /\ discarded = 1
    /\ Len(processed_names_log) = 1

\* C10: every row the script writes carries the Source-File ('Unknown' when
\* absent) and the JSON of the buffered record at its text_block_index in
\* the batch being processed, and every row on disk those of one input line.
C10_RowsCarrySourceMetadata ==
    /\ \A r \in DataRows(csvfile) :
          /\ r.text_block_index \in 0..(Len(batch_buffer) - 1)
          /\ LET rec == batch_buffer[r.text_block_index + 1]
             IN  /\ r.source_file =
                       (IF rec.meta = NoSourceFile THEN "Unknown" ELSE rec.meta)
                 /\ r.raw_json_input = <<"text", rec.text, "Source-File", rec.meta>>
    /\ \A r \in DataRows(output_file.rows) :
          \E k \in 1..Len(input) :
              /\ input[k].kind = "json"
              /\ r.raw_json_input =
                    <<"text", input[k].text, "Source-File", input[k].meta>>
              /\ r.source_file =
                    (IF input[k].meta = NoSourceFile THEN "Unknown"
                     ELSE input[k].meta)
C10_Witness ==
    /\ pc = "flush"
    /\ \E r \in DataRows(csvfile) :
          r.text_block_index = 1 /\ r.source_file = "Unknown"
    /\ \E r \in DataRows(csvfile) :
          r.text_block_index = 0 /\ r.source_file \in SourceFiles

\* C11: a line that does not parse is never buffered nor dispatched, and the
\* step that reads it keeps the script in its line loop with the buffer and
\* the checkpoint file as they were and nothing dispatched.
MalformedOffsets == {k - 1 : k \in {m \in 1..Len(input) : input[m].kind = "bad"}}
C11_NeverInBatch ==
    (dispatched \cup Texts(batch_buffer)) \cap MalformedOffsets = {}
C11_ReadMalformedStep ==
    (/\ HasLine
     /\ ~Skipped(i + 1, start_line)
     /\ NextLine.kind = "bad"
     /\ pc' # "idle"
     /\ (i' # i \/ pc' # pc))
        => /\ pc' = "read"
           /\ i' = i + 1
           /\ batch_buffer' = batch_buffer
           /\ checkpoint_file' = checkpoint_file
           /\ dispatched' = dispatched
           /\ csvfile' = csvfile
C11_MalformedLineSkipped ==
    [](C11_NeverInBatch) /\ [][C11_ReadMalformedStep]_vars
C11_Witness ==
    /\ pc = "call"
    /\ tries > 0
    /\ \E k \in MalformedOffsets :
          /\ k >= start_line
          /\ \E t \in Texts(batch_buffer) : t < k
          /\ \E t \in Texts(batch_buffer) : t > k

\* C12: the run's choice of mode is append, without header, exactly when the
\* checkpoint read is greater than 0 and the output file exists; opening in
\* append mode keeps the file, opening in truncate mode empties it, and the
\* header is written exactly in truncate mode, before any row.
AppendModeDue(cf, out) == ReadCheckpoint(cf) > 0 /\ out.exists
C12_ModeStep ==
    /\ (pc \in {"idle", "done", "halted"} /\ pc' = "open")
          => (write_header' = ~AppendModeDue(checkpoint_file, output_file))
    /\ (pc = "open" /\ pc' = "header")
          => (output_file' = IF write_header THEN FileOf(<<>>) ELSE output_file)
    /\ (pc = "header" /\ pc' = "read")
          => /\ csvfile = <<>>
             /\ csvfile' = IF write_header THEN <<HeaderRow>> ELSE <<>>
             /\ write_header => output_file.rows = <<>>
C12_AppendIffResumedAndPresent == [][C12_ModeStep]_vars
C12_Witness ==
    /\ pc = "read"
    /\ start_line > 0
    /\ write_header
    /\ output_file.rows \o csvfile = <<HeaderRow>>

\* C13: the rows written so far hold at most one header; from the header
\* write of a fresh run on they hold exactly one, as the first row; an output
\* file a run can resume on holds exactly one, as its first row; and a run
\* that resumes from a checkpoint writes none.
HeaderCount(rows) == Cardinality({n \in 1..Len(rows) : rows[n].kind = "header"})
C13_HeaderExactlyOnce ==
    /\ HeaderCount(output_file.rows \o csvfile) <= 1
    /\ (Running /\ write_header /\ pc \notin {"open", "header"})
          => /\ HeaderCount(output_file.rows \o csvfile) = 1
             /\ Head(output_file.rows \o csvfile) = HeaderRow
    /\ ReadCheckpoint(checkpoint_file) > 0
          => /\ HeaderCount(output_file.rows) = 1
             /\ Head(output_file.rows) = HeaderRow
    /\ (Running /\ start_line > 0) => ~write_header
C13_Witness ==
    /\ runs = 2
    /\ start_line > 0
    /\ pc = "done"
    /\ Len(output_file.rows) > 2
    /\ output_file.rows[Len(output_file.rows)].kind = "row"

\* C14 (as claimed): entries leave the log only in a run that starts from
\* offset 0.
IsPrefix(s, t) == Len(s) <= Len(t) /\ \A n \in 1..Len(s) : s[n] = t[n]
C14_LogRemovedOnlyByFreshRun ==
    [][~IsPrefix(log_file.rows, log_file'.rows) => start_line = 0]_vars

\* C15 (as claimed): without the API credential no output file is created or
\* truncated, no log removed and no checkpoint written.
C15_NoOutputWithoutKey ==
    ~apiKey => /\ output_file = NoFile
               /\ log_file = NoFile
               /\ checkpoint_file = NoCheckpoint

\* C16: the combiner's output holds every non-blank input line exactly once,
\* in non-decreasing order of its sort key, a record without page number
\* before the numbered ones of its volume, records of equal key in the
\* order they were read.
NonBlankTexts == {input_dir[n].text : n \in {m \in 1..Len(input_dir) :
                                              input_dir[m].kind # "blank"}}
C16_OutputSortedStable ==
    pc = "comb_done" =>
        LET out == output_file.rows
            K(n) == source_file_sort_key(out[n])
        IN  /\ Len(out) = Cardinality(NonBlankTexts)
            /\ {out[n].text : n \in 1..Len(out)} = NonBlankTexts
            /\ \A m, n \in 1..Len(out) :
                 m < n => /\ ~KeyLess(K(n), K(m))
                          /\ K(m) = K(n) => out[m].text < out[n].text
            /\ \A m, n \in 1..Len(out) :
                 (K(m)[1] = K(n)[1] /\ K(m)[2] = -1 /\ K(n)[2] >= 0) => m < n
C16_Witness ==
    /\ pc = "comb_done"
    /\ Len(output_file.rows) = 3
    /\ LET out == output_file.rows
           K(n) == source_file_sort_key(out[n])
       IN  /\ K(1)[1] = K(2)[1] /\ K(1)[2] = -1 /\ K(2)[2] = 3
           /\ K(2) = K(3)
           /\ out[1].text > out[2].text

\* C17: with a line that does not parse in the input the destination file is
\* never opened: it stays as it was, absent or with its old content, and the
\* run ends in the error of the read loop.
HasUnparsable == \E n \in 1..Len(input_dir) : input_dir[n].kind = "bad"
C17_NoWriteState ==
    HasUnparsable => pc \in {"comb_read", "comb_raised"}
C17_NoWriteStep == HasUnparsable => output_file' = output_file
C17_UnparsableAbortsBeforeOpen ==
    [](C17_NoWriteState) /\ [][C17_NoWriteStep]_vars
C17_Witness ==
    /\ pc = "comb_raised"
    /\ Len(records) = 2
    /\ output_file = FileOf(<<StaleRecord>>)

\* C20 (as claimed): 'vol1_page_3' and 'vol1_page_4' get the volume key
\* 'vol1' and the pages 3 and 4; the page is the N of the trailing page_<N>
\* token, and a Source-File without page token keeps its text as volume key.
C20_Vol1PagesShareVolume ==
    pc = "key_returned" =>
        /\ sf = Vol1Page3 => sort_key = <<<<"vol1">>, 3>>
        /\ sf = Vol1Page4 => sort_key = <<<<"vol1">>, 4>>
        /\ sf = <<"page_", "3", "page_", "4">> => sort_key[2] = 4
        /\ (\A k \in 1..Len(sf) : sf[k] # "page_") => sort_key[2] = -1

\* The pages the segmenter is through with, the blocks it emitted for one of
\* them in emission order, and their lines one after the other.
SegPagesDone ==
    {p \in 0..(Len(pages) - 1) :
        p < page_idx \/ (p = page_idx /\ pc \in {"seg_page", "seg_done"})}
BlocksOfPage(p) == SelectSeq(segments, LAMBDA b : b.page_index = p)
RECURSIVE ConcatRawText(_)
ConcatRawText(blocks) ==
    IF blocks = <<>> THEN <<>>
    ELSE Head(blocks).raw_text \o ConcatRawText(Tail(blocks))
PageNonBlankLines(p) == SelectSeq(pages[p + 1], LAMBDA l : l # "")
RECURSIVE MapRstrip(_)
MapRstrip(ls) ==
    IF ls = <<>> THEN <<>>
    ELSE <<(IF Head(ls) = "Warrant issued " THEN "Warrant issued" ELSE Head(ls))>>
            \o MapRstrip(Tail(ls))

\* C18 (as claimed): the lines of a page's blocks, in emission order, are
\* exactly the page's non-blank lines.
C18_BlocksReconstructPageExactly ==
    \A p \in SegPagesDone :
        ConcatRawText(BlocksOfPage(p)) = PageNonBlankLines(p)

\* C18 (amended): every block of a page is non-empty, and the lines of the
\* page's blocks, in emission order, are the page's non-blank lines in their
\* order, each without its trailing whitespace; blocks without a name
\* candidate are among them.
C18_BlocksReconstructPageStripped ==
    \A p \in SegPagesDone :
        /\ \A n \in 1..Len(BlocksOfPage(p)) : BlocksOfPage(p)[n].raw_text # <<>>
        /\ ConcatRawText(BlocksOfPage(p)) = MapRstrip(PageNonBlankLines(p))
C18_Witness ==
    /\ pc = "seg_done"
    /\ pages = <<<<"Warrant issued ", "100-1", "John Smith, Ger">>>>
    /\ Len(segments) = 2
    /\ segments[1].raw_text = <<"Warrant issued">>
    /\ segments[1].name_candidates = <<>>
    /\ segments[2].name_candidates = <<"John Smith">>

\* A line of the page is an ID line with a name line among the next two
\* non-blank lines.
PageHasStart(p) ==
    LET ls == PageNonBlankLines(p)
    IN  \E k \in 1..Len(ls) :
            /\ ls[k] = "100-1"
            /\ \E j \in {k + 1, k + 2} : j <= Len(ls) /\ ls[j] = "John Smith, Ger"

\* C19 (as claimed): a page without such a line yields exactly one block,
\* which holds all its lines.
C19_OneBlockWithoutStart ==
    \A p \in SegPagesDone :
        ~PageHasStart(p)
            => /\ Len(BlocksOfPage(p)) = 1
               /\ BlocksOfPage(p)[1].raw_text = MapRstrip(PageNonBlankLines(p))

\* C19 (amended): a page with at least one non-blank line and without such a
\* line yields exactly one block, which holds all its non-blank lines.
C19_OneBlockWithoutStartNonEmpty ==
    \A p \in SegPagesDone :
        (~PageHasStart(p) /\ PageNonBlankLines(p) # <<>>)
            => /\ Len(BlocksOfPage(p)) = 1
               /\ BlocksOfPage(p)[1].raw_text = MapRstrip(PageNonBlankLines(p))
C19_Witness ==
    /\ pc = "seg_done"
    /\ Len(pages) = 2
    /\ NonBlankStripped(pages[1]) = <<>>
    /\ pages[2] = <<"Warrant issued", "100-1", "Warrant issued">>
    /\ Len(segments) = 1
    /\ segments[1].page_index = 1

\* C21 (as claimed): the warnings printed for a response are as many as the
\* records of it that were discarded, in the final batch as in a full one.
C21_WarningPerDiscarded == warnings = discarded

\* C22 (as claimed): the buffer never holds more than BATCH_SIZE records and
\* a batch handed to the client holds between 1 and BATCH_SIZE.
C22_BatchWithinSize ==
    /\ Len(batch_buffer) <= BATCH_SIZE
    /\ pc = "call" => Len(batch_buffer) >= 1

\* C23: the step that completes a checkpoint write writes the offset of the
\* last line read plus 1; every record of the batch it persists, and every
\* record dispatched in the run, lies below that value, and every line below
\* it has been read.
C23_WriteStep ==
    (pc = "ckpt_write" /\ checkpoint_file' # checkpoint_file)
        => /\ checkpoint_file' = [exists |-> TRUE, valid |-> TRUE, value |-> i + 1]
           /\ i + 1 <= Len(input)
           /\ batch_buffer # <<>>
           /\ \A t \in Texts(batch_buffer) \cup dispatched : t < i + 1
           /\ \A n \in 1..Len(batch_buffer) :
                  input[batch_buffer[n].text + 1].kind = "json"
C23_CheckpointIsNextOffset == [][C23_WriteStep]_vars
C23_Witness ==
    /\ pc = "read"
    /\ checkpoint_file.valid
    /\ checkpoint_file.value = 2
    /\ i = 1
    /\ dispatched = {0, 1}
    /\ Len(input) = 3

\* C24: a validated response without people is an ordinary result. The step
\* that returns it goes on to the reconcile loop (no further attempt, no
\* halt); the loop writes no row and records no name; the flush adds no data
\* row to the output; the log entry of the batch is appended (with no name);
\* and the checkpoint is written past the batch. A step that moves the
\* program on, other than the process being killed, is meant by Advances.
Advances == pc' # pc /\ pc' # "idle"
C24_Step ==
    /\ (pc = "validated" /\ result' = <<>> /\ Advances)
           => /\ pc' = "reconcile"
              /\ due' = {}
              /\ tries' = 0
              /\ UNCHANGED <<diskVars, batch_buffer, csvfile>>
    /\ (pc = "reconcile" /\ result = <<>> /\ Advances)
           => /\ pc' = "flush"
              /\ csvfile' = csvfile
              /\ processed_names_log' = <<>>
              /\ discarded' = 0
              /\ UNCHANGED <<diskVars, batch_buffer>>
    /\ (pc = "flush" /\ due = {} /\ Advances)
           => /\ pc' = "log"
              /\ output_file'.rows = output_file.rows \o csvfile
              /\ DataRows(csvfile) = {}
              /\ processed_names_log' = <<>>
    /\ (pc = "log" /\ due = {} /\ Advances)
           => /\ pc' = "ckpt_open"
              /\ log_file'.exists
              /\ log_file'.rows = log_file.rows \o
                     <<[line |-> i + 1, names |-> <<>>, final |-> final]>>
    /\ (pc = "ckpt_open" /\ due = {} /\ Advances) => pc' = "ckpt_write"
    /\ (pc = "ckpt_write" /\ due = {} /\ Advances)
           => /\ pc' \in {"read", "done"}
              /\ checkpoint_file'.valid
              /\ \A t \in Texts(batch_buffer) : t < checkpoint_file'.value
C24_EmptyResultIsPersisted == [][C24_Step]_vars
C24_Witness ==
    /\ pc = "read"
    /\ runs = 1
    /\ ~exhausted
    /\ dispatched = {0, 1}
    /\ output_file.exists
    /\ DataRows(output_file.rows) = {}
    /\ log_file.rows = <<[line |-> 2, names |-> <<>>, final |-> FALSE]>>
    /\ checkpoint_file = [exists |-> TRUE, valid |-> TRUE, value |-> 2]

\* C27: a run that starts with a readable checkpoint starts at its value;
\* the step that opens the checkpoint for writing is about to write i + 1,
\* which is above the start offset and above the value the file holds (the
\* last one written); the step that writes it writes that i + 1; and while a
\* run is under way a readable checkpoint is never below the start offset.
C27_Step ==
    /\ (pc \in {"idle", "done", "halted"} /\ pc' = "open" /\ checkpoint_file.valid)
           => /\ start_line' = checkpoint_file.value
              /\ checkpoint_file' = checkpoint_file
    /\ (pc = "ckpt_open" /\ pc' = "ckpt_write")
           => /\ i + 1 > start_line
              /\ checkpoint_file.valid => i + 1 > checkpoint_file.value
              /\ i' = i
    /\ (pc = "ckpt_write" /\ checkpoint_file'.valid)
           => /\ checkpoint_file'.value = i + 1
              /\ checkpoint_file'.value > start_line
    /\ (Running /\ pc' # "idle") => start_line' = start_line
C27_CheckpointIncreases ==
    /\ []((Running /\ checkpoint_file.valid) => checkpoint_file.value >= start_line)
    /\ [][C27_Step]_vars
C27_Witness ==
    /\ runs = 2
    /\ pc = "done"
    /\ start_line = 2
    /\ dispatched = {2}
    /\ checkpoint_file = [exists |-> TRUE, valid |-> TRUE, value |-> 3]

\* C28: a run that ends normally on an input with a parseable record leaves
\* an output file and a readable checkpoint above 0 with no parseable line at
\* or after it; the run started from there resumes at that offset without a
\* header; and every step of a run that has no header to write and no
\* parseable line at or after its start offset leaves the checkpoint, the
\* output and the log as they are, dispatches nothing, buffers no row and
\* never enters the extraction call.
NoParseableFrom(n) ==
    \A k \in 1..Len(input) : input[k].kind = "json" => k - 1 < n
HasParseable == \E k \in 1..Len(input) : input[k].kind = "json"
C28_Completed ==
    (pc = "done" /\ HasParseable)
        => /\ output_file.exists
           /\ checkpoint_file.valid
           /\ checkpoint_file.value > 0
           /\ NoParseableFrom(checkpoint_file.value)
C28_Step ==
    /\ (pc = "done" /\ HasParseable /\ pc' = "open")
           => /\ start_line' = checkpoint_file.value
              /\ ~write_header'
              /\ UNCHANGED diskVars
    /\ (Running /\ ~write_header /\ output_file.exists /\ start_line > 0
           /\ NoParseableFrom(start_line))
           => /\ UNCHANGED diskVars
              /\ dispatched' = {}
              /\ csvfile' = <<>>
              /\ batch_buffer' = <<>>
              /\ pc' \in {"header", "read", "done", "idle"}
C28_RerunIsNoOp == []C28_Completed /\ [][C28_Step]_vars
C28_Witness ==
    /\ runs = 2
    /\ pc = "done"
    /\ start_line = 3
    /\ dispatched = {}
    /\ log_file.rows # <<>>
    /\ LastOf(log_file.rows).final
    /\ Len(log_file.rows) = 2

\* C29: a run that finds a checkpoint file without an integer in it starts at
\* offset 0 with a header to write; a run that starts at offset 0 empties the
\* output when it opens it, writes the header into the emptied file, removes
\* the log, and skips no line; and while it runs, the data rows of the
\* output are rows of batches this run dispatched, below a single header.
C29_Step ==
    /\ (pc \in {"idle", "done", "halted"} /\ pc' = "open"
           /\ checkpoint_file.exists /\ ~checkpoint_file.valid)
           => /\ start_line' = 0
              /\ write_header'
    /\ (pc = "open" /\ pc' = "header" /\ start_line = 0)
           => /\ output_file'.exists
              /\ output_file'.rows = <<>>
    /\ (pc = "header" /\ pc' = "read" /\ start_line = 0)
           => /\ csvfile' = <<HeaderRow>>
              /\ ~log_file'.exists
    /\ (pc = "read" /\ start_line = 0 /\ i' = i + 1 /\ input[i' + 1].kind = "json")
           => /\ batch_buffer' # <<>>
              /\ LastOf(batch_buffer').text = i'
C29_FreshRows ==
    (Running /\ start_line = 0 /\ pc \notin {"open", "header"})
        => /\ \A h \in history : h.texts \subseteq dispatched
           /\ DataRows(output_file.rows) \subseteq UNION {h.rows : h \in history} \cup due
           /\ HeaderCount(output_file.rows \o csvfile) = 1
           /\ Head(output_file.rows \o csvfile) = HeaderRow
C29_UnreadableCheckpointRestarts == []C29_FreshRows /\ [][C29_Step]_vars
C29_Witness ==
    /\ runs = 2
    /\ pc = "header"
    /\ start_line = 0
    /\ write_header
    /\ checkpoint_file = EmptyCheckpoint
    /\ output_file.rows = <<>>
    /\ \E n \in 1..Len(log_file.rows) : log_file.rows[n].names # <<>>

\* C25: on a page that has been segmented and has a non-blank line, the
\* positions (counted from 1 among the page's non-blank lines) at which the
\* page's blocks begin are position 1 and exactly the positions k > 1 whose
\* line is ID-like with a name-like line among the next two; the page has one
\* block more than it has such positions.
StartPositions(p) ==
    LET ls == PageNonBlankLines(p)
    IN  {k \in 2..Len(ls) :
            /\ ID_LINE_RE_match(line_rstrip(ls[k]))
            /\ \E j \in {k + 1, k + 2} :
                   j <= Len(ls) /\ NAME_LINE_RE_match(line_strip(ls[j]))}
BlockPositions(p) ==
    {1 + Len(ConcatRawText(SubSeq(BlocksOfPage(p), 1, n - 1))) :
        n \in 1..Len(BlocksOfPage(p))}
C25_BlocksBeginAtStarts ==
    \A p \in SegPagesDone :
        PageNonBlankLines(p) # <<>>
            => /\ BlockPositions(p) = {1} \cup StartPositions(p)
               /\ Len(BlocksOfPage(p)) = 1 + Cardinality(StartPositions(p))
C25_Witness ==
    /\ pc = "seg_done"
    /\ pages = <<<<"Warrant issued", "100-1", "Warrant issued", "John Smith, Ger">>>>
    /\ Len(segments) = 2
    /\ segments[1].raw_text = <<"Warrant issued">>
    /\ segments[2].raw_text = <<"100-1", "Warrant issued", "John Smith, Ger">>

\* C26: the n-th block emitted carries person_index n - 1 and the counter
\* stands at the number of blocks emitted; the page_index of a block is a
\* page already read and does not decrease from one block to the next; and
\* the lines of a block are consecutive non-blank lines (trailing whitespace
\* removed) of the page its page_index names, as are the lines collected for
\* the block still open.
IsRunOf(ls, page) ==
    \E a \in 1..(Len(page) + 1) :
        /\ a + Len(ls) - 1 <= Len(page)
        /\ SubSeq(page, a, a + Len(ls) - 1) = ls
C26_SequentialIndexWithinPage ==
    /\ person_index = Len(segments)
    /\ \A n \in 1..Len(segments) :
          /\ segments[n].person_index = n - 1
          /\ segments[n].page_index \in 0..page_idx
          /\ segments[n].raw_text # <<>>
          /\ IsRunOf(segments[n].raw_text,
                     MapRstrip(PageNonBlankLines(segments[n].page_index)))
    /\ \A n \in 1..(Len(segments) - 1) :
          segments[n].page_index <= segments[n + 1].page_index
    /\ pc = "seg_loop" => IsRunOf(current, MapRstrip(PageNonBlankLines(page_idx)))
C26_Witness ==
    /\ pc = "seg_done"
    /\ pages = <<<<"Warrant issued">>, <<"100-1", "John Smith, Ger">>>>
    /\ Len(segments) = 2
    /\ segments[1].person_index = 0
    /\ segments[1].page_index = 0
    /\ segments[2].person_index = 1
    /\ segments[2].page_index = 1
    /\ segments[2].raw_text = <<"100-1", "John Smith, Ger">>

====
